---- MODULE Spec2Model ----
(***************************************************************************)
(* Detection recorder (src/main.py): ingest_data appends one detection to *)
(* the session's table and re-evaluates the "5 consecutive" alert;        *)
(* group_timestamps / aggregate_detections derive interval lists from the *)
(* table.                                                                 *)
(*                                                                        *)
(* A datetime is the record [d, s, u]: day ordinal, second of the day,    *)
(* microsecond of the second.  A timedelta is the normalised record       *)
(* [days, seconds, microseconds] that Python builds, with                 *)
(* 0 <= seconds < 86400 and 0 <= microseconds < 10^6.                     *)
(***************************************************************************)
EXTENDS Integers, Sequences, FiniteSets, TLC

VARIABLES
    store,    \* rows of the detections table visible to the session, in insertion order
    alerts,   \* ids of the rows whose ingest_data call printed the ALERT line
    window,   \* last_5_detections fetched by the most recent ingest_data call
    ret,      \* value returned, or failure raised, by the most recent call
    queries,  \* number of last-5 queries the session has run
    committed, \* number of rows made durable by session.commit()
    conn      \* progress and outcome of the connection set-up

vars == <<store, alerts, window, ret, queries, committed, conn>>

\* ------------------------------------------------------------------ bounds

\* Largest number of rows in the full specification (Spec).
MaxEvents == 3

\* Largest number of rows in the alert specification (SpecAlert).
MaxAlertEvents == 6

\* ------------------------------------------------------- datetime / timedelta

SecondsPerDay == 24 * 60 * 60

MicrosPerSecond == 1000 * 1000

\* datetime(...) values used as inputs: T1 is 23:59:30 on day 0; T2 is 60 s
\* later (over midnight), T3 60.5 s after T2, T4 61 s after T3; T5 is 1 day and
\* 30 s after T2 (1 day 90 s after T1, less than a day after T3 and T4).
T1 == [d |-> 0, s |-> 86370, u |-> 0]
T2 == [d |-> 1, s |-> 30, u |-> 0]
T3 == [d |-> 1, s |-> 90, u |-> 500000]
T4 == [d |-> 1, s |-> 151, u |-> 500000]
T5 == [d |-> 2, s |-> 60, u |-> 0]

Times == {T1, T2, T3, T4, T5}

\* datetime.__lt__ / ORDER BY time: chronological order.
TimeLT(a, b) ==
    \/ a.d < b.d
    \/ a.d = b.d /\ a.s < b.s
    \/ a.d = b.d /\ a.s = b.s /\ a.u < b.u

TimeLE(a, b) == a = b \/ TimeLT(a, b)

\* datetime.__sub__: the timedelta a - b, normalised as timedelta.__new__ does
\* (microseconds borrow from seconds, seconds borrow from days).
TimeSub(a, b) ==
    LET us0 == a.u - b.u
        s0 == a.s - b.s
        d0 == a.d - b.d
        us == IF us0 < 0 THEN us0 + MicrosPerSecond ELSE us0
        s1 == IF us0 < 0 THEN s0 - 1 ELSE s0
        sec == IF s1 < 0 THEN s1 + SecondsPerDay ELSE s1
        dd == IF s1 < 0 THEN d0 - 1 ELSE d0
    IN  [days |-> dd, seconds |-> sec, microseconds |-> us]

\* str(datetime): "YYYY-MM-DD HH:MM:SS", with ".ffffff" appended only when the
\* microsecond is not zero.  The text is modelled as the tuple of its fields.
Str(t) == IF t.u = 0 THEN <<t.d, t.s>> ELSE <<t.d, t.s, t.u>>

\* ------------------------------------------------------------------ the table

\* Detection(time=..., type=...) with the primary key the table assigns.
Detection(id, timestamp, detection_type) ==
    [id |-> id, time |-> timestamp, type |-> detection_type]

\* .filter(DetectionClass.type.in_(types))
FilterTypeIn(rows, types) ==
    LET keep(r) == r.type \in types IN SelectSeq(rows, keep)

\* .order_by(DetectionClass.time): rows of equal time stay in insertion order.
\* The store leaves their order open; the callers read only the time column.
OrderByTime(rows) == SortSeq(rows, LAMBDA a, b : TimeLT(a.time, b.time))

\* .order_by(DetectionClass.time.desc())
OrderByTimeDesc(rows) == SortSeq(rows, LAMBDA a, b : TimeLT(b.time, a.time))

\* .limit(n)
Limit(rows, n) == SubSeq(rows, 1, IF Len(rows) < n THEN Len(rows) ELSE n)

\* ------------------------------------------------------------------ ingest_data

AlertTypes == {"pedestrian", "bicycle"}

AlertLimit == 5

AlertGapSeconds == 60

\* Mutant of QueryLast5: the type filter is missing.
QueryLast5Unfiltered(rows) == Limit(OrderByTimeDesc(rows), AlertLimit)

\* session.query(...).filter(type_conditions).order_by(time.desc()).limit(5).all()
\* Mutant of QueryLast5: the latest five rows by insertion id.
QueryLast5ByInsertion(rows) ==
    LET found == FilterTypeIn(rows, AlertTypes)
        n == Len(found)
    IN  [i \in 1..(IF n < AlertLimit THEN n ELSE AlertLimit) |-> found[n + 1 - i]]

QueryLast5(rows) == Limit(OrderByTimeDesc(FilterTypeIn(rows, AlertTypes)), AlertLimit)

\* (last_5_detections[i - 1].time - last_5_detections[i].time).seconds > 60
AlertGapTooLong(newer, older) == TimeSub(newer, older).seconds > AlertGapSeconds

\* The loop of lines 79-83: stays True unless some adjacent pair breaks it.
IntervalsAreConsecutive(last_5) ==
    \A i \in 2..Len(last_5) : ~AlertGapTooLong(last_5[i - 1].time, last_5[i].time)

\* Mutant of PrintsAlert: the length test is missing.
PrintsAlertAnyLength(last_5) == IntervalsAreConsecutive(last_5)

\* Whether the call prints the ALERT line, given what it fetched.
PrintsAlert(last_5) ==
    Len(last_5) = AlertLimit /\ IntervalsAreConsecutive(last_5)

NoValue == [kind |-> "None"]

\* Mutant of IngestData: a row of the same time is overwritten instead of a new
\* row being added.
IngestDataUpsert(timestamp, detection_type) ==
    LET same == {i \in 1..Len(store) : store[i].time = timestamp}
        detection == Detection(Len(store) + 1, timestamp, detection_type)
        flushed == IF same = {}
                   THEN Append(store, detection)
                   ELSE [i \in 1..Len(store) |->
                            IF i \in same THEN Detection(i, timestamp, detection_type)
                            ELSE store[i]]
    IN  /\ store' = flushed
        /\ window' = QueryLast5(store')
        /\ queries' = queries + 1
        /\ alerts' = IF PrintsAlert(window') THEN alerts \cup {detection.id} ELSE alerts
        /\ ret' = NoValue
        /\ UNCHANGED <<committed, conn>>

\* Mutant of IngestData: the query runs before the new row is flushed.
IngestDataQueryBeforeFlush(timestamp, detection_type) ==
    LET detection == Detection(Len(store) + 1, timestamp, detection_type)
    IN  /\ store' = Append(store, detection)
        /\ window' = QueryLast5(store)
        /\ queries' = queries + 1
        /\ alerts' = IF PrintsAlert(window') THEN alerts \cup {detection.id} ELSE alerts
        /\ ret' = NoValue
        /\ UNCHANGED <<committed, conn>>

IngestData(timestamp, detection_type) ==
    LET detection == Detection(Len(store) + 1, timestamp, detection_type)
    IN  /\ store' = Append(store, detection)
        /\ window' = QueryLast5(store')
        /\ queries' = queries + 1
        /\ alerts' = IF PrintsAlert(window') THEN alerts \cup {detection.id} ELSE alerts
        /\ ret' = NoValue
        /\ UNCHANGED <<committed, conn>>

WriteFailure == [kind |-> "WriteFailure"]

\* Mutant of IngestDataWriteFailure: the alert evaluation runs although the
\* flush raised (as from a finally block), then the failure is re-raised.
IngestDataWriteFailureThenQuery(timestamp, detection_type) ==
    /\ ret' = WriteFailure
    /\ window' = QueryLast5(store)
    /\ queries' = queries + 1
    /\ alerts' = IF PrintsAlert(window') THEN alerts \cup {Len(store) + 1} ELSE alerts
    /\ UNCHANGED <<store, committed, conn>>

\* ingest_data when session.add / session.flush raises: the exception leaves
\* the function at line 71, before the query of line 75.
IngestDataWriteFailure(timestamp, detection_type) ==
    /\ ret' = WriteFailure
    /\ UNCHANGED <<store, alerts, window, queries, committed, conn>>

\* session.commit(): every flushed row becomes durable.
Commit ==
    /\ committed' = Len(store)
    /\ ret' = NoValue
    /\ UNCHANGED <<store, alerts, window, queries, conn>>

\* ------------------------------------------------------------------ connection set-up

MaxRetries == 3

DefaultRetries == 5

\* conn.log is the sequence of what wait_for_db_connection did: "ok" for an
\* attempt that connected, "fail" for one that raised OperationalError, "sleep"
\* for a time.sleep(delay).  conn.result is "running" until the function
\* returns, then the Python value it returned: "True", "False" or "None".
ConnIdle ==
    [pc |-> "idle", caller |-> "none", retries |-> 0, attempt |-> 0, log |-> <<>>,
     result |-> "running", schema |-> FALSE, session |-> FALSE]

\* The outcome of a database_connection whose first attempt connected.
ConnConnected ==
    [pc |-> "connected", caller |-> "database_connection", retries |-> DefaultRetries,
     attempt |-> 0, log |-> <<"ok">>, result |-> "True", schema |-> TRUE, session |-> TRUE]

\* Entry of wait_for_db_connection(engine, retries, delay).
EnterWait(retries, caller) ==
    /\ conn.pc = "idle"
    /\ conn' = [conn EXCEPT !.pc = "loop", !.caller = caller, !.retries = retries]
    /\ UNCHANGED <<store, alerts, window, ret, queries, committed>>

\* A direct call, as the tests make it, with any retries >= 0.
CallWaitForDbConnection ==
    \E retries \in 0..MaxRetries : EnterWait(retries, "direct")

\* database_connection calls wait_for_db_connection(engine) with the defaults.
CallDatabaseConnection == EnterWait(DefaultRetries, "database_connection")

\* One iteration of the for loop in which engine.connect() succeeds.
AttemptSucceeds ==
    /\ conn.pc = "loop"
    /\ conn.attempt < conn.retries
    /\ conn' = [conn EXCEPT !.pc = "done", !.log = Append(@, "ok"), !.result = "True"]
    /\ UNCHANGED <<store, alerts, window, ret, queries, committed>>

\* One iteration in which engine.connect() raises OperationalError.
AttemptFails ==
    /\ conn.pc = "loop"
    /\ conn.attempt < conn.retries
    /\ conn' = IF conn.attempt < conn.retries - 1
               THEN [conn EXCEPT !.attempt = @ + 1, !.log = @ \o <<"fail", "sleep">>]
               ELSE [conn EXCEPT !.pc = "done", !.log = Append(@, "fail"),
                                 !.result = "False"]
    /\ UNCHANGED <<store, alerts, window, ret, queries, committed>>

\* range(retries) is exhausted without a return inside the loop: the function
\* ends without a return statement, so the call evaluates to None.
RangeExhausted ==
    /\ conn.pc = "loop"
    /\ conn.attempt >= conn.retries
    /\ conn' = [conn EXCEPT !.pc = "done", !.result = "None"]
    /\ UNCHANGED <<store, alerts, window, ret, queries, committed>>

\* Mutant of DatabaseConnectionReturns: the result of the wait is not tested.
DatabaseConnectionIgnoresResult ==
    /\ conn.pc = "done"
    /\ conn.caller = "database_connection"
    /\ conn' = [conn EXCEPT !.pc = "connected", !.schema = TRUE, !.session = TRUE]
    /\ UNCHANGED <<store, alerts, window, ret, queries, committed>>

\* database_connection after the wait: `if not wait_for_db_connection(engine)`
\* raises, otherwise create_all and the session follow.
DatabaseConnectionReturns ==
    /\ conn.pc = "done"
    /\ conn.caller = "database_connection"
    /\ conn' = IF conn.result = "True"
               THEN [conn EXCEPT !.pc = "connected", !.schema = TRUE, !.session = TRUE]
               ELSE [conn EXCEPT !.pc = "raised"]
    /\ UNCHANGED <<store, alerts, window, ret, queries, committed>>

\* ------------------------------------------------------------------ group_timestamps

GroupGapSeconds == 60

\* Mutant of GroupGapOk: the comparison is strict.
GroupGapOkStrict(ts, end) == TimeSub(ts, end).seconds < GroupGapSeconds

\* (ts - end).seconds <= 60
GroupGapOk(ts, end) == TimeSub(ts, end).seconds <= GroupGapSeconds

\* intervals.append((str(start), str(end)))
AppendInterval(intervals, start, end) == Append(intervals, <<Str(start), Str(end)>>)

\* The for loop over timestamps[1:], from position i on, and the append after it.
RECURSIVE GroupScan(_, _, _, _, _)
GroupScan(timestamps, i, start, end, intervals) ==
    IF i > Len(timestamps)
    THEN AppendInterval(intervals, start, end)
    ELSE LET ts == timestamps[i] IN
         IF GroupGapOk(ts, end)
         THEN GroupScan(timestamps, i + 1, start, ts, intervals)
         ELSE GroupScan(timestamps, i + 1, ts, ts, AppendInterval(intervals, start, end))

\* Mutant of QueryTimestamps: the order_by is missing, rows come in insertion order.
QueryTimestampsUnordered(rows, types) ==
    LET found == FilterTypeIn(rows, types)
    IN  [i \in 1..Len(found) |-> found[i].time]

\* session.query(DetectionClass.time).filter(type.in_(types)).order_by(time).all(),
\* then [row[0] for row in timestamps]
QueryTimestamps(rows, types) ==
    LET sorted == OrderByTime(FilterTypeIn(rows, types))
    IN  [i \in 1..Len(sorted) |-> sorted[i].time]

\* Mutant of group_timestamps: a run is only closed inside the loop, so a lone
\* timestamp yields nothing.
group_timestampsLoopOnly(rows, types) ==
    LET timestamps == QueryTimestamps(rows, types)
    IN  IF Len(timestamps) < 2
        THEN <<>>
        ELSE GroupScan(timestamps, 2, timestamps[1], timestamps[1], <<>>)

group_timestamps(rows, types) ==
    LET timestamps == QueryTimestamps(rows, types)
    IN  IF timestamps = <<>>
        THEN <<>>
        ELSE GroupScan(timestamps, 2, timestamps[1], timestamps[1], <<>>)

PeopleTypes == {"pedestrian", "bicycle"}

VehicleTypes == {"car", "truck", "van"}

GroupTimestamps(types) ==
    /\ ret' = [kind |-> "group", types |-> types, intervals |-> group_timestamps(store, types)]
    /\ UNCHANGED <<store, alerts, window, queries, committed, conn>>

\* ------------------------------------------------------------------ aggregate_detections

\* Mutant of aggregate_detections: 'people' is grouped from every known type.
aggregate_detectionsAllTypes(rows) ==
    [people |-> group_timestamps(rows, PeopleTypes \cup VehicleTypes \cup {"other"}),
     vehicles |-> group_timestamps(rows, VehicleTypes)]

aggregate_detections(rows) ==
    [people |-> group_timestamps(rows, PeopleTypes),
     vehicles |-> group_timestamps(rows, VehicleTypes)]

\* Mutant of AggregateDetections: the call ends the transaction with a rollback,
\* discarding the session's rows.
AggregateDetectionsRollback ==
    /\ ret' = [kind |-> "aggregate", result |-> aggregate_detections(store)]
    /\ store' = <<>>
    /\ UNCHANGED <<alerts, window, queries, committed, conn>>

AggregateDetections ==
    /\ ret' = [kind |-> "aggregate", result |-> aggregate_detections(store)]
    /\ UNCHANGED <<store, alerts, window, queries, committed, conn>>

\* ------------------------------------------------------------------ specifications

\* Detection types fed to ingest_data: both tracked types, one vehicle type and
\* one type outside both partitions.
Types == {"pedestrian", "bicycle", "car", "other"}

Init ==
    /\ store = <<>>
    /\ alerts = {}
    /\ window = <<>>
    /\ ret = NoValue
    /\ queries = 0
    /\ committed = 0
    /\ conn = ConnConnected

Ingest ==
    /\ Len(store) < MaxEvents
    /\ \E timestamp \in Times, detection_type \in Types :
           IngestData(timestamp, detection_type)

Group == \E types \in {PeopleTypes, VehicleTypes} : GroupTimestamps(types)

Next == Ingest \/ Group \/ AggregateDetections

Spec == Init /\ [][Next]_vars

\* The alert specification: ingestion only, long enough for a full window of
\* five tracked rows plus one more call.
AlertInputTypes == {"pedestrian", "bicycle", "car"}

AlertInputTimes == {T1, T2, T5}

IngestAlert ==
    /\ Len(store) < MaxAlertEvents
    /\ \E timestamp \in AlertInputTimes, detection_type \in AlertInputTypes :
           IngestData(timestamp, detection_type)

NextAlert == IngestAlert

SpecAlert == Init /\ [][NextAlert]_vars

\* ------------------------------------------------------------------ rows with equal times
\* ORDER BY time fixes the order of two rows only when their times differ.
\* The operators below give every result the two queries may return.

MaxTieEvents == 6

\* At most this many events of one run share a timestamp.
MaxSameTime == 3

RowSet(rows) == {rows[i] : i \in 1..Len(rows)}

\* All sequences of n rows of S (of all its rows when it has fewer).
RECURSIVE AnyOrders(_, _)
AnyOrders(S, n) ==
    IF S = {} \/ n = 0
    THEN {<<>>}
    ELSE UNION {{<<r>> \o o : o \in AnyOrders(S \ {r}, n - 1)} : r \in S}

\* The first n rows of all sequences of the rows of S that are ordered by
\* time, descending or ascending: the rows of the extreme time come first, in
\* any order, and the other rows follow in the same way.
RECURSIVE TimeOrders(_, _, _)
TimeOrders(S, descending, n) ==
    IF S = {} \/ n = 0
    THEN {<<>>}
    ELSE LET first == {r \in S : \A y \in S : IF descending
                                                THEN TimeLE(y.time, r.time)
                                                ELSE TimeLE(r.time, y.time)}
             k == Cardinality(first)
         IN  IF k >= n
             THEN AnyOrders(first, n)
             ELSE LET rest == TimeOrders(S \ first, descending, n - k)
                  IN  {p \o o : p \in AnyOrders(first, k), o \in rest}

\* Mutant of RecentResults: the order_by is missing.
RecentResultsUnordered(rows) ==
    AnyOrders(RowSet(FilterTypeIn(rows, AlertTypes)), AlertLimit)

\* The results the query of ingest_data may return.
RecentResults(rows) ==
    TimeOrders(RowSet(FilterTypeIn(rows, AlertTypes)), TRUE, AlertLimit)

\* The timestamp lists the query of group_timestamps may return.
TimestampResults(rows, types) ==
    LET found == FilterTypeIn(rows, types)
    IN  {[i \in 1..Len(o) |-> o[i].time] : o \in TimeOrders(RowSet(found), FALSE, Len(found))}

\* The scan of group_timestamps over a fetched timestamp list.
GroupIntervals(timestamps) ==
    IF timestamps = <<>>
    THEN <<>>
    ELSE GroupScan(timestamps, 2, timestamps[1], timestamps[1], <<>>)

GroupResults(rows, types) == {GroupIntervals(ts) : ts \in TimestampResults(rows, types)}

IngestDataTies(timestamp, detection_type) ==
    LET detection == Detection(Len(store) + 1, timestamp, detection_type)
    IN  /\ store' = Append(store, detection)
        /\ window' \in RecentResults(store')
        /\ queries' = queries + 1
        /\ alerts' = IF PrintsAlert(window') THEN alerts \cup {detection.id} ELSE alerts
        /\ ret' = NoValue
        /\ UNCHANGED <<committed, conn>>

AggregateDetectionsTies ==
    /\ \E people \in GroupResults(store, PeopleTypes),
          vehicles \in GroupResults(store, VehicleTypes) :
           ret' = [kind |-> "aggregate", result |-> [people |-> people, vehicles |-> vehicles]]
    /\ UNCHANGED <<store, alerts, window, queries, committed, conn>>

TieInputs == {<<T1, "pedestrian">>, <<T2, "pedestrian">>, <<T4, "pedestrian">>}

SameTime(timestamp) == {i \in 1..Len(store) : store[i].time = timestamp}

\* A run of main: the ingest_data calls come first, aggregate_detections last.
IngestTies ==
    /\ ret.kind # "aggregate"
    /\ Len(store) < MaxTieEvents
    /\ \E input \in TieInputs :
           /\ Cardinality(SameTime(input[1])) < MaxSameTime
           /\ IngestDataTies(input[1], input[2])

NextTies == IngestTies \/ AggregateDetectionsTies

SpecTies == Init /\ [][NextTies]_vars

\* Out-of-order ingestion of people and vehicles, then aggregation.
OrderInputs ==
    {<<T1, "pedestrian">>, <<T2, "pedestrian">>, <<T4, "pedestrian">>, <<T2, "car">>}

IngestOrder ==
    /\ Len(store) < MaxAlertEvents
    /\ \E input \in OrderInputs : IngestData(input[1], input[2])

NextOrder == IngestOrder \/ AggregateDetections

SpecOrder == Init /\ [][NextOrder]_vars

\* The session specification: ingestion whose write may fail, commits and
\* grouping.  A write failure is not handled anywhere in main.py: the exception
\* ends the run.
SessionInputTypes == {"pedestrian", "car"}

SessionInputTimes == {T1, T2, T4}

SessionUsable == ret # WriteFailure

IngestSession ==
    /\ SessionUsable
    /\ Len(store) < MaxEvents
    /\ \E timestamp \in SessionInputTimes, detection_type \in SessionInputTypes :
           IngestData(timestamp, detection_type)

IngestSessionFails ==
    /\ SessionUsable
    /\ Len(store) < MaxEvents
    /\ \E timestamp \in SessionInputTimes, detection_type \in SessionInputTypes :
           IngestDataWriteFailure(timestamp, detection_type)

CommitSession == SessionUsable /\ Commit

GroupSession == SessionUsable /\ Group

NextSession == IngestSession \/ IngestSessionFails \/ CommitSession \/ GroupSession

SpecSession == Init /\ [][NextSession]_vars

\* The start-up specification: the connection is still to be made, and
\* ingestion needs the session that database_connection returns.
InitConnect ==
    /\ store = <<>>
    /\ alerts = {}
    /\ window = <<>>
    /\ ret = NoValue
    /\ queries = 0
    /\ committed = 0
    /\ conn = ConnIdle

IngestConnected ==
    /\ conn.session
    /\ Len(store) < MaxEvents
    /\ \E timestamp \in SessionInputTimes, detection_type \in SessionInputTypes :
           IngestData(timestamp, detection_type)

NextConnect ==
    \/ CallWaitForDbConnection
    \/ CallDatabaseConnection
    \/ AttemptSucceeds
    \/ AttemptFails
    \/ RangeExhausted
    \/ DatabaseConnectionReturns
    \/ IngestConnected

SpecConnect == InitConnect /\ [][NextConnect]_vars

\* ------------------------------------------------------------------ properties

\* datetime.fromisoformat on the text str() produced.
FromStr(x) == [d |-> x[1], s |-> x[2], u |-> IF Len(x) = 3 THEN x[3] ELSE 0]

\* Elapsed whole seconds from a to b (a not after b): the time difference with
\* its fraction of a second dropped.
WholeSecondsBetween(a, b) ==
    (b.d - a.d) * SecondsPerDay + (b.s - a.s) - (IF b.u < a.u THEN 1 ELSE 0)

\* The stored timestamps of the given types.
StoredTimes(types) == {store[i].time : i \in {j \in 1..Len(store) : store[j].type \in types}}

\* The indices of the intervals that contain the timestamp t.
Containing(intervals, t) ==
    {k \in 1..Len(intervals) :
        TimeLE(FromStr(intervals[k][1]), t) /\ TimeLE(t, FromStr(intervals[k][2]))}

\* Ordered, non-overlapping, and every stored timestamp of the types in exactly one.
PartitionsTimes(intervals, types) ==
    /\ \A k \in 1..Len(intervals) - 1 :
           TimeLT(FromStr(intervals[k][2]), FromStr(intervals[k + 1][1]))
    /\ \A t \in StoredTimes(types) : Cardinality(Containing(intervals, t)) = 1

\* Timestamps a before b with no stored timestamp of the types strictly between.
AdjacentTimes(types) ==
    {p \in StoredTimes(types) \X StoredTimes(types) :
        /\ TimeLT(p[1], p[2])
        /\ ~\E t \in StoredTimes(types) : TimeLT(p[1], t) /\ TimeLT(t, p[2])}

SameInterval(intervals, a, b) == Containing(intervals, a) \cap Containing(intervals, b) # {}

\* C1: the interval list group_timestamps returns is ordered and non-overlapping
\* (each end strictly before the next start) and every stored timestamp of the
\* partition lies in exactly one interval.
C1_IntervalsPartitionTimestamps ==
    ret.kind = "group" => PartitionsTimes(ret.intervals, ret.types)

\* A returned list of two or more intervals over three or more rows, two of them
\* sharing a timestamp.
C1_Witness ==
    /\ ret.kind = "group"
    /\ Len(ret.intervals) >= 2
    /\ Len(FilterTypeIn(store, ret.types)) >= 3
    /\ Cardinality(StoredTimes(ret.types)) < Len(FilterTypeIn(store, ret.types))

\* C2: two adjacent timestamps of a partition fall in the same returned interval
\* if and only if they are at most 60 seconds apart, whatever the size of the gap
\* (one day or more included).  The gap is taken in whole seconds, as the
\* grouping rule defines it.
C2_MaximalRunsAnyGap ==
    ret.kind = "group" =>
        \A p \in AdjacentTimes(ret.types) :
            SameInterval(ret.intervals, p[1], p[2]) <=> WholeSecondsBetween(p[1], p[2]) <= 60

\* C7: two adjacent timestamps less than one day apart are merged exactly when
\* their gap truncated to whole seconds is at most 60 (60 s and 60.5 s merge,
\* 61 s splits).
C7_TruncatedGapUnderOneDay ==
    ret.kind = "group" =>
        \A p \in AdjacentTimes(ret.types) :
            WholeSecondsBetween(p[1], p[2]) < SecondsPerDay =>
                (SameInterval(ret.intervals, p[1], p[2])
                    <=> WholeSecondsBetween(p[1], p[2]) <= 60)

\* Gaps of 60.5 s and 61 s in one partition: the first merged, the second split.
C7_Witness ==
    /\ ret.kind = "group"
    /\ StoredTimes(ret.types) = {T2, T3, T4}
    /\ ret.intervals = << <<Str(T2), Str(T3)>>, <<Str(T4), Str(T4)>> >>

\* ---- alert properties (SpecAlert)

\* Indices of the stored pedestrian / bicycle rows.
TrackedIds(rows) == {i \in 1..Len(rows) : rows[i].type \in {"pedestrian", "bicycle"}}

\* The sets of five tracked rows with the latest timestamps (several when rows
\* share a timestamp at the cut).
Latest5Sets(rows) ==
    {W \in SUBSET TrackedIds(rows) :
        /\ Cardinality(W) = 5
        /\ \A i \in W, j \in TrackedIds(rows) \ W : TimeLE(rows[j].time, rows[i].time)}

\* Taken in time order, every row of W is at most 60 seconds after the one before.
GapsWithin60(rows, W) ==
    \A i \in W :
        LET earlier == {j \in W : TimeLT(rows[j].time, rows[i].time)}
        IN  earlier # {} =>
                \E j \in earlier : WholeSecondsBetween(rows[j].time, rows[i].time) <= 60

ExpectedAlert(rows) == \E W \in Latest5Sets(rows) : GapsWithin60(rows, W)

\* C3: the call that has just returned emitted an alert if and only if at least
\* five tracked events are stored and the four adjacent gaps among the five
\* latest are each at most 60 seconds, gaps of any size included.
C3_AlertIffFiveWithin60 ==
    Len(store) > 0 => (Len(store) \in alerts <=> ExpectedAlert(store))

\* Rows 1..n of the store that are tracked, in insertion order.
TrackedPrefix(n) == FilterTypeIn(SubSeq(store, 1, n), {"pedestrian", "bicycle"})

\* b is at most 60 seconds after a (a not after b), fractions of a second counted.
AtMost60After(a, b) ==
    \/ WholeSecondsBetween(a, b) < 60
    \/ WholeSecondsBetween(a, b) = 60 /\ a.u = b.u

\* The tracked rows were ingested in ascending time, each at most 60 s after
\* the previous one.
AscendingWithin60(rows) ==
    \A i \in 2..Len(rows) :
        /\ TimeLE(rows[i - 1].time, rows[i].time)
        /\ AtMost60After(rows[i - 1].time, rows[i].time)

\* C4: no call after which fewer than five tracked events are stored emits an
\* alert; and when the fifth tracked event has just been ingested, the tracked
\* events having come in ascending time with every gap at most 60 seconds, the
\* alert has been emitted exactly once, by that fifth call.
C4_NoAlertBelowFiveThenOnce ==
    /\ \A id \in alerts : Len(TrackedPrefix(id)) >= 5
    /\ (/\ Len(store) >= 5
        /\ store[Len(store)].type \in {"pedestrian", "bicycle"}
        /\ Len(TrackedPrefix(Len(store))) = 5
        /\ AscendingWithin60(TrackedPrefix(Len(store))))
       => alerts = {Len(store)}

\* Five tracked events, at two different times, ingested in ascending order 60 s
\* apart or less: the fifth call alerted, the four before did not.
C4_Witness ==
    /\ Len(store) = 5
    /\ Len(TrackedPrefix(5)) = 5
    /\ AscendingWithin60(TrackedPrefix(5))
    /\ store[1].time # store[5].time
    /\ alerts = {5}

\* C5: a call that leaves the window of the five most recent tracked events
\* unchanged emits no alert.
C5_OneShotPerWindow ==
    [][(store' # store /\ window' = window) => alerts' = alerts]_vars

\* The store with every non-tracked row removed.
TrackedOnly(rows) == FilterTypeIn(rows, {"pedestrian", "bicycle"})

\* C6: the window the call evaluated, and whether it alerted, are what they
\* would be with every non-tracked event absent from the store.
C6_NonTrackedNeverCount ==
    Len(store) > 0 =>
        LET without == Limit(OrderByTimeDesc(TrackedOnly(store)), 5)
        IN  /\ window = without
            /\ \A i \in 1..Len(window) : window[i].type \in {"pedestrian", "bicycle"}
            /\ Len(store) \in alerts <=> PrintsAlert(without)

\* A car as late as the newest tracked row is stored among five tracked rows,
\* and the call alerted on the five tracked rows.
C6_Witness ==
    /\ Len(store) = 6
    /\ Len(TrackedOnly(store)) = 5
    /\ \E i \in 1..5 : store[i].type = "car" /\ \A j \in 1..6 : TimeLE(store[j].time, store[i].time)
    /\ 6 \in alerts

\* ---- aggregation properties (Spec)

\* The rows of the given types, with every other row removed.
OnlyTypes(rows, types) == LET keep(r) == r.type \in types IN SelectSeq(rows, keep)

\* Every type a row can have.
AnyType == Types \cup PeopleTypes \cup VehicleTypes

\* Both ends of every interval are timestamps of stored rows of the types.
EndsFrom(intervals, types) ==
    \A k \in 1..Len(intervals) :
        /\ FromStr(intervals[k][1]) \in StoredTimes(types)
        /\ FromStr(intervals[k][2]) \in StoredTimes(types)

\* C8: the 'people' list is what grouping the pedestrian/bicycle rows alone
\* gives, the 'vehicles' list what grouping the car/truck/van rows alone gives;
\* rows of the other partition or of a type outside both change neither list
\* and supply no interval end.
C8_PartitionsUseOwnTypes ==
    ret.kind = "aggregate" =>
        /\ ret.result.people
              = group_timestamps(OnlyTypes(store, {"pedestrian", "bicycle"}), AnyType)
        /\ ret.result.vehicles
              = group_timestamps(OnlyTypes(store, {"car", "truck", "van"}), AnyType)
        /\ EndsFrom(ret.result.people, {"pedestrian", "bicycle"})
        /\ EndsFrom(ret.result.vehicles, {"car", "truck", "van"})

\* An aggregate over a store holding a person, a vehicle and a row of a type
\* outside both partitions, the latter at a time of its own.
C8_Witness ==
    /\ ret.kind = "aggregate"
    /\ Len(ret.result.people) >= 1
    /\ Len(ret.result.vehicles) >= 1
    /\ \E i \in 1..Len(store) :
           /\ store[i].type = "other"
           /\ \A j \in 1..Len(store) : j # i => store[j].time # store[i].time

C10_StoreOnlyGrowsByIngest ==
    [][/\ (store' # store \/ ret' = NoValue) =>
              \E timestamp \in Times, detection_type \in AnyType :
                  store' = Append(store, Detection(Len(store) + 1, timestamp, detection_type))
       /\ ret'.kind \in {"group", "aggregate"} => store' = store]_vars

\* Rows at one timestamp were ingested twice and an aggregate was then returned.
C10_Witness ==
    /\ ret.kind = "aggregate"
    /\ Len(store) >= 3
    /\ \E i, j \in 1..Len(store) : i < j /\ store[i].time = store[j].time

\* The stored rows of the given types.
RowsOf(types) == OnlyTypes(store, types)

\* The list for a partition with no row is empty; with exactly one row, at time
\* t, it is the one interval (t, t).
EmptyOrDegenerate(intervals, types) ==
    /\ Len(RowsOf(types)) = 0 => intervals = <<>>
    /\ Len(RowsOf(types)) = 1 =>
           intervals = << <<Str(RowsOf(types)[1].time), Str(RowsOf(types)[1].time)>> >>

\* C13: with no pedestrian/bicycle (car/truck/van) event stored the partition's
\* interval list is empty; with exactly one such event, at time t, the list is
\* exactly the degenerate interval (t, t).
C13_EmptyAndSingleEvent ==
    /\ ret.kind = "group" =>
           \/ ret.types = {"pedestrian", "bicycle"}
              /\ EmptyOrDegenerate(ret.intervals, {"pedestrian", "bicycle"})
           \/ ret.types = {"car", "truck", "van"}
              /\ EmptyOrDegenerate(ret.intervals, {"car", "truck", "van"})
    /\ ret.kind = "aggregate" =>
           /\ EmptyOrDegenerate(ret.result.people, {"pedestrian", "bicycle"})
           /\ EmptyOrDegenerate(ret.result.vehicles, {"car", "truck", "van"})

\* An aggregate over rows of which exactly one is a person (with a fraction of a
\* second in its time) and none is a vehicle.
C13_Witness ==
    /\ ret.kind = "aggregate"
    /\ Len(store) >= 2
    /\ Len(RowsOf({"pedestrian", "bicycle"})) = 1
    /\ RowsOf({"pedestrian", "bicycle"})[1].time.u # 0
    /\ Len(RowsOf({"car", "truck", "van"})) = 0
    /\ Len(ret.result.people) = 1
    /\ ret.result.vehicles = <<>>

\* ---- session properties (SpecSession)

\* C11: a row is visible to the session's queries as soon as ingest_data has
\* flushed it, committed or not: the query of the ingest_data call ran on the
\* rows including the new one (which is in the fetched window whenever at most
\* five tracked rows exist), and a group_timestamps result covers every stored
\* row of its types, the uncommitted ones included.
C11_FlushedRowsVisibleBeforeCommit ==
    /\ window = QueryLast5(store)
    /\ (/\ Len(store) > 0
        /\ store[Len(store)].type \in {"pedestrian", "bicycle"}
        /\ Cardinality(TrackedIds(store)) <= 5)
       => \E i \in 1..Len(window) : window[i].id = Len(store)
    /\ ret.kind = "group" =>
           \A i \in 1..Len(store) :
               store[i].type \in ret.types => Containing(ret.intervals, store[i].time) # {}

\* A row was committed, a later tracked row was not, and the uncommitted row is
\* both in the window its call fetched and alone in an interval of the group
\* result returned afterwards.
C11_Witness ==
    /\ ret.kind = "group"
    /\ ret.types = {"pedestrian", "bicycle"}
    /\ committed >= 1
    /\ committed < Len(store)
    /\ store[Len(store)].type = "pedestrian"
    /\ window[1].id = Len(store)
    /\ ret.intervals[Len(ret.intervals)]
           = <<Str(store[Len(store)].time), Str(store[Len(store)].time)>>
    /\ Len(ret.intervals) >= 2

\* C16: a call whose write fails raises the failure to its caller, runs no
\* last-5 query and emits no alert (and adds no row).
C16_NoEvaluationAfterWriteFailure ==
    [][(ret # WriteFailure /\ ret' = WriteFailure) =>
           /\ queries' = queries
           /\ window' = window
           /\ alerts' = alerts
           /\ store' = store]_vars

\* A write failed after two successful calls; only those two ran the query.
C16_Witness ==
    /\ ret = WriteFailure
    /\ Len(store) = 2
    /\ queries = 2

\* ---- connection properties (SpecConnect)

Attempts == Cardinality({i \in 1..Len(conn.log) : conn.log[i] # "sleep"})

Delays == Cardinality({i \in 1..Len(conn.log) : conn.log[i] = "sleep"})

Connected == \E i \in 1..Len(conn.log) : conn.log[i] = "ok"

Returned == conn.result # "running"

\* C12: wait_for_db_connection makes at most `retries` attempts, stops at the
\* first success and returns True, returns False after exactly `retries`
\* attempts when all of them fail, and sleeps only between two attempts (k
\* failed attempts, k-1 sleeps, none after the last attempt).
C12_RetryProtocol ==
    /\ Attempts <= conn.retries
    /\ \A i \in 1..Len(conn.log) :
           conn.log[i] = "ok" => i = Len(conn.log) /\ conn.result = "True"
    /\ (Returned /\ ~Connected) => conn.result = "False" /\ Attempts = conn.retries
    /\ \A i \in 1..Len(conn.log) :
           conn.log[i] = "sleep" =>
               /\ i > 1
               /\ conn.log[i - 1] = "fail"
               /\ Returned => i < Len(conn.log)
    /\ (Returned /\ Attempts >= 1) => Delays = Attempts - 1

\* C14: wait_for_db_connection returns the boolean True when an attempt
\* connected and the boolean False otherwise, never another value, for every
\* retries >= 0.
C14_ResultIsBoolean ==
    Returned =>
        /\ conn.result \in {"True", "False"}
        /\ conn.result = "True" <=> Connected

\* C15: database_connection creates the schema and returns a session only
\* after an attempt connected; when the budget is used up without success it
\* raises, the schema is not created, no session exists and nothing is ingested.
C15_SchemaAndSessionOnlyAfterSuccess ==
    /\ (conn.schema \/ conn.session) => Connected /\ conn.caller = "database_connection"
    /\ (conn.pc \in {"connected", "raised"} /\ ~Connected) => conn.pc = "raised"
    /\ conn.pc = "raised" =>
           /\ ~Connected
           /\ Attempts = DefaultRetries
           /\ ~conn.schema
           /\ ~conn.session
           /\ store = <<>>
           /\ queries = 0
    /\ store # <<>> => conn.session

\* database_connection raised after five failed attempts.
C15_Witness ==
    /\ conn.pc = "raised"
    /\ conn.caller = "database_connection"
    /\ Attempts = 5
    /\ ~Connected
    /\ ~conn.schema
    /\ store = <<>>

\* ---- order independence (SpecTies, SpecOrder)

\* C17: whichever order the store gives to rows of equal time, the alert
\* decision of the recent-events query and the interval lists of the ascending
\* query are the same.  Every result the queries may return is taken in some
\* run: in each of them the fetched window is a possible result, the alert
\* decision is that of every possible result and of the deterministic query,
\* and the aggregate is the one computed from the deterministic query.
C17_TieOrderDoesNotMatter ==
    LET recent == RecentResults(store)
    IN  /\ window \in recent
        /\ QueryLast5(store) \in recent
        /\ \A w \in recent : PrintsAlert(w) = PrintsAlert(window)
        /\ Len(store) > 0 => (Len(store) \in alerts <=> PrintsAlert(window))
        /\ ret.kind = "aggregate" => ret.result = aggregate_detections(store)

\* Six tracked rows with equal times at the cut of the limit: the query has
\* several answers with different rows, the fetched one is not the one of the
\* deterministic query, and the call alerted.
C17_Witness ==
    /\ Len(FilterTypeIn(store, AlertTypes)) = 6
    /\ Cardinality({RowSet(w) : w \in RecentResults(store)}) >= 2
    /\ window # QueryLast5(store)
    /\ window[1].time # window[5].time
    /\ 6 \in alerts
    /\ ret.kind = "aggregate"
    /\ Len(ret.result.people) = 1

SwapRows(rows, i, j) ==
    [k \in 1..Len(rows) |->
        LET from == IF k = i THEN j ELSE IF k = j THEN i ELSE k
        IN  Detection(k, rows[from].time, rows[from].type)]

\* C18: ingesting the same events in another order gives the same
\* aggregate_detections result (exchanging the insertion positions of any two
\* events does not change it; every sequence of events is reachable, and
\* exchanges generate all orders), and the fetched window holds the tracked
\* rows with the latest times, whatever their insertion order.
C18_IngestionOrderDoesNotMatter ==
    /\ ret.kind = "aggregate" =>
           \A i, j \in 1..Len(store) :
               i < j => aggregate_detections(SwapRows(store, i, j)) = ret.result
    /\ LET tracked == FilterTypeIn(store, AlertTypes)
       IN  /\ Len(window) = IF Len(tracked) < 5 THEN Len(tracked) ELSE 5
           /\ RowSet(window) \subseteq RowSet(tracked)
           /\ Cardinality(RowSet(window)) = Len(window)
           /\ \A k \in 1..(Len(window) - 1) : TimeLE(window[k + 1].time, window[k].time)
           /\ \A r \in RowSet(tracked) \ RowSet(window) :
                  TimeLE(r.time, window[Len(window)].time)

\* The earliest event was ingested last, after five later ones: it is not in
\* the window its own call fetched, and the aggregate has it first.
C18_Witness ==
    /\ ret.kind = "aggregate"
    /\ Len(store) = 6
    /\ \A k \in 1..3 : store[k] = Detection(k, T4, "pedestrian")
    /\ \A k \in 4..5 : store[k] = Detection(k, T2, "pedestrian")
    /\ store[6] = Detection(6, T1, "pedestrian")
    /\ Len(window) = 5
    /\ \A k \in 1..5 : window[k].id # 6
    /\ ret.result.people = << <<Str(T1), Str(T2)>>, <<Str(T4), Str(T4)>> >>
    /\ ret.result.vehicles = <<>>

====
